---- MODULE Spec2Model ----
(***************************************************************************)
(* A model of crucible's lakefile localizer (src/_crucible/lakefile.py).   *)
(*                                                                         *)
(* Text is a sequence of tokens.  Every token stands for the literal text  *)
(* it spells ("require" for the seven characters r-e-q-u-i-r-e, " " for a  *)
(* run character of white space, "\"" for a double quote).  No token is a  *)
(* concatenation of other tokens, so equality of token sequences is        *)
(* equality of the strings they spell, and the regular expressions of the  *)
(* source are interpreted token by token.                                  *)
(***************************************************************************)
EXTENDS Integers, Sequences, FiniteSets, TLC

\* ------------------------------------------------------------------------
\* Bounds of the model
\* ------------------------------------------------------------------------
MaxItems == 2      \* clauses / lines of text in a generated Lean manifest
MaxApply == 2      \* successive applications of the Dependency Rewriter
MaxRepos == 2      \* length of the registry list
MaxRuns == 2       \* successive runs of main
MaxCheckouts == 2  \* successive runs of the main of checkout.py

\* ------------------------------------------------------------------------
\* Tokens
\* ------------------------------------------------------------------------
WS == " "
Q == "\""

\* tokens all of whose characters are in [a-zA-Z0-9_]
IdentTok == {"a", "b", "u", "r", "s", "p",
             "require", "from", "git", "package", "where"}

NameA == <<"a">>
NameB == <<"b">>
NameAB == <<"a", "-", "b">>
NameAdotB == <<"a", ".", "b">>

\* Python compares strings by code point: '-' (45) < '.' (46) < 'a' < 'b'
TokOrd(tok) ==
  CASE tok = "-" -> 45
    [] tok = "." -> 46
    [] tok = "a" -> 97
    [] tok = "b" -> 98
    [] OTHER -> 0

RECURSIVE StrLess(_, _)
StrLess(x, y) ==
  IF x = <<>> THEN y # <<>>
  ELSE IF y = <<>> THEN FALSE
  ELSE IF TokOrd(Head(x)) < TokOrd(Head(y)) THEN TRUE
  ELSE IF TokOrd(Head(x)) > TokOrd(Head(y)) THEN FALSE
  ELSE StrLess(Tail(x), Tail(y))

\* ------------------------------------------------------------------------
\* The regular expression engine, as far as require_pattern needs it.
\* A position is an index into the text; 0 means "no match".
\* ------------------------------------------------------------------------
RECURSIVE SkipWS(_, _)
\* \s* from position i: the first position that is not white space
SkipWS(t, i) ==
  IF i >= 1 /\ i <= Len(t) /\ t[i] = WS THEN SkipWS(t, i + 1) ELSE i

\* \s+
WS1(t, i) ==
  IF i >= 1 /\ i <= Len(t) /\ t[i] = WS THEN SkipWS(t, i) ELSE 0

\* a literal token
Lit(t, i, tok) ==
  IF i >= 1 /\ i <= Len(t) /\ t[i] = tok THEN i + 1 ELSE 0

RECURSIVE SkipNotQ(_, _)
\* [^"]* from position i
SkipNotQ(t, i) ==
  IF i >= 1 /\ i <= Len(t) /\ t[i] # Q THEN SkipNotQ(t, i + 1) ELSE i

\* "[^"]*"
QStr(t, i) ==
  LET o == Lit(t, i, Q) IN
  IF o = 0 THEN 0 ELSE Lit(t, SkipNotQ(t, o), Q)

RECURSIVE SkipIdent(_, _)
SkipIdent(t, i) ==
  IF i >= 1 /\ i <= Len(t) /\ t[i] \in IdentTok THEN SkipIdent(t, i + 1) ELSE i

\* [a-zA-Z0-9_]+
Ident1(t, i) ==
  IF i >= 1 /\ i <= Len(t) /\ t[i] \in IdentTok THEN SkipIdent(t, i) ELSE 0

\* \s+@\s+git\s+"[^"]*"
SrcAtGit(t, i) ==
  QStr(t, WS1(t, Lit(t, WS1(t, Lit(t, WS1(t, i), "@")), "git")))

\* \s+from\s+git\s+"[^"]*"(?:\s+@\s+"[^"]*")?
SrcFromGit(t, i) ==
  LET e == QStr(t, WS1(t, Lit(t, WS1(t, Lit(t, WS1(t, i), "from")), "git")))
      rv == QStr(t, WS1(t, Lit(t, WS1(t, e), "@")))
  IN IF e = 0 THEN 0 ELSE IF rv # 0 THEN rv ELSE e

\* \s+from\s+"[^"]*"
SrcFromPath(t, i) ==
  QStr(t, WS1(t, Lit(t, WS1(t, i), "from")))

\* the optional source group: the first alternative that matches, else nothing
SrcOpt(t, i) ==
  IF SrcAtGit(t, i) # 0 THEN SrcAtGit(t, i)
  ELSE IF SrcFromGit(t, i) # 0 THEN SrcFromGit(t, i)
  ELSE IF SrcFromPath(t, i) # 0 THEN SrcFromPath(t, i)
  ELSE i

\* "[^"]*"\s*/\s+"([^"]+)" at position i: <<position after, group 1>>
ScopedName(t, i) ==
  LET o == Lit(t, WS1(t, Lit(t, SkipWS(t, QStr(t, i)), "/")), Q)
      c == SkipNotQ(t, o)
  IN IF o = 0 \/ c = o \/ Lit(t, c, Q) = 0 THEN <<0, <<>>>>
     ELSE <<c + 1, SubSeq(t, o, c - 1)>>

\* ([a-zA-Z0-9_]+) at position i: <<position after, group 2>>
BareName(t, i) ==
  LET e == Ident1(t, i)
  IN IF e = 0 THEN <<0, <<>>>> ELSE <<e, SubSeq(t, i, e - 1)>>

\* require_pattern anchored at position i
require_pattern(t, i) ==
  LET j == WS1(t, Lit(t, i, "require"))
      sc == ScopedName(t, j)
      nm == IF sc[1] # 0 THEN sc ELSE BareName(t, j)
  IN IF j = 0 \/ nm[1] = 0
     THEN [end |-> 0, name |-> <<>>]
     ELSE [end |-> SrcOpt(t, nm[1]), name |-> nm[2]]

relative_path(req_name) == <<".", ".", "/">> \o req_name

\* the canonical clause, require {name} from "../{name}"
Canonical(req_name) ==
  <<"require", WS>> \o req_name \o <<WS, "from", WS, Q>>
    \o relative_path(req_name) \o <<Q>>

replace_require(t, i, m, repo_name_map) ==
  IF m.name \in repo_name_map
  THEN Canonical(m.name)
  ELSE SubSeq(t, i, m.end - 1)

RECURSIVE re_sub(_, _, _)
\* re.sub(require_pattern, replace_require, content), scanning from i
re_sub(t, i, repo_name_map) ==
  IF i > Len(t) THEN <<>>
  ELSE LET m == require_pattern(t, i)
       IN IF m.end = 0
          THEN <<t[i]>> \o re_sub(t, i + 1, repo_name_map)
          ELSE replace_require(t, i, m, repo_name_map)
                 \o re_sub(t, m.end, repo_name_map)

\* Outcomes of the file system during one call: no failure, the read raises,
\* the open for writing raises (file untouched), the write raises after the
\* open has truncated the file.
IoOutcomes == {"ok", "read", "open", "write"}
\* the same, in the order in which a call can fail
IoOrder == <<"read", "open", "write", "ok">>

\* what a call of a rewriter did: the content it left in the file, the flag
\* it returned, whether it opened the file for writing, whether it ended in
\* its except clause
Result(content, modified, wrote, raised) ==
  [content |-> content, modified |-> modified, wrote |-> wrote, raised |-> raised]

\* modify_lean_lakefile: the new content of the file and the returned flag
modify_lean_lakefile(content, repo_name_map, io) ==
  LET new == re_sub(content, 1, repo_name_map)
  IN IF io = "read" THEN Result(content, FALSE, FALSE, TRUE)
     ELSE IF new = content THEN Result(content, FALSE, FALSE, FALSE)
     ELSE IF io = "open" THEN Result(content, FALSE, FALSE, TRUE)
     ELSE IF io = "write" THEN Result(<<>>, FALSE, TRUE, TRUE)
     ELSE Result(new, TRUE, TRUE, FALSE)

\* ------------------------------------------------------------------------
\* Structured (TOML) manifests.  A file is a sequence of lines; toml.load
\* gives the data they declare and toml.dump prints data in the library's
\* own layout.
\* ------------------------------------------------------------------------
KV(k, v) == [t |-> "kv", k |-> k, v |-> v]           \* k = "v"
Hdr(n) == [t |-> "hdr", k |-> n, v |-> <<>>]         \* [[n]]
Comment == [t |-> "comment", k |-> "", v |-> <<>>]   \* # ...
Blank == [t |-> "blank", k |-> "", v |-> <<>>]
Bad == [t |-> "bad", k |-> "", v |-> <<>>]           \* a line that is not TOML

EmptyList == <<"[]">>                                 \* the value []

RECURSIVE FirstHdr(_, _)
\* index of the first table header at or after i, Len + 1 if none
FirstHdr(lines, i) ==
  IF i > Len(lines) \/ lines[i].t = "hdr" THEN i ELSE FirstHdr(lines, i + 1)

IsKV(l) == l.t = "kv"

\* the key/value pairs of a run of lines, in order
KVsOf(lines) ==
  LET kvl == SelectSeq(lines, IsKV)
  IN [n \in 1..Len(kvl) |-> [k |-> kvl[n].k, v |-> kvl[n].v]]

RECURSIVE Tables(_)
\* the array-of-tables elements of the lines from the first header on
Tables(lines) ==
  IF lines = <<>> THEN <<>>
  ELSE LET rest == Tail(lines)
           n == FirstHdr(rest, 1)
       IN <<[tname |-> Head(lines).k, kv |-> KVsOf(SubSeq(rest, 1, n - 1))]>>
            \o Tables(SubSeq(rest, n, Len(rest)))

HasKey(kv, key) == \E n \in 1..Len(kv) : kv[n].k = key
GetKey(kv, key) == kv[CHOOSE n \in 1..Len(kv) : kv[n].k = key].v
UniqueKeys(kv) == \A m, n \in 1..Len(kv) : kv[m].k = kv[n].k => m = n

\* toml.load: ok is FALSE when the decoder raises
toml_load(lines) ==
  LET h == FirstHdr(lines, 1)
      top == KVsOf(SubSeq(lines, 1, h - 1))
      tabs == Tables(SubSeq(lines, h, Len(lines)))
  IN [ok |-> /\ \A n \in 1..Len(lines) : lines[n].t # "bad"
             /\ UniqueKeys(top)
             /\ \A n \in 1..Len(tabs) : UniqueKeys(tabs[n].kv)
             /\ \A n \in 1..Len(tabs) : ~HasKey(top, tabs[n].tname),
      top |-> top,
      tabs |-> tabs]

KVLines(kv) == [n \in 1..Len(kv) |-> KV(kv[n].k, kv[n].v)]

RECURSIVE DumpTables(_, _)
\* the elements named tname, each as a header, its pairs and an empty line
DumpTables(tabs, tname) ==
  IF tabs = <<>> THEN <<>>
  ELSE (IF Head(tabs).tname = tname
        THEN <<Hdr(tname)>> \o KVLines(Head(tabs).kv) \o <<Blank>>
        ELSE <<>>)
       \o DumpTables(Tail(tabs), tname)

RECURSIVE DumpGroups(_, _)
\* arrays of tables in the order their keys entered the dict
DumpGroups(tabs, n) ==
  IF n > Len(tabs) THEN <<>>
  ELSE (IF \E m \in 1..(n - 1) : tabs[m].tname = tabs[n].tname
        THEN <<>>
        ELSE DumpTables(tabs, tabs[n].tname))
       \o DumpGroups(tabs, n + 1)

\* toml.dump: top-level values first, then the arrays of tables
toml_dump(data) == KVLines(data.top) \o DumpGroups(data.tabs, 1)

RemoteFields == {"git", "url", "rev", "version", "scope"}

IsRemote(p) == p.k \in RemoteFields
NotRemote(p) == p.k \notin RemoteFields

\* require_entry['path'] = relative_path
SetPath(kv, v) ==
  IF HasKey(kv, "path")
  THEN [n \in 1..Len(kv) |-> IF kv[n].k = "path" THEN [k |-> "path", v |-> v] ELSE kv[n]]
  ELSE Append(kv, [k |-> "path", v |-> v])

EntryManaged_AnyName(kv, repo_name_map) == HasKey(kv, "name")

\* is this require entry one the loop body changes
EntryManaged(kv, repo_name_map) ==
  HasKey(kv, "name") /\ GetKey(kv, "name") \in repo_name_map

EntryModified(kv, repo_name_map) ==
  /\ EntryManaged(kv, repo_name_map)
  /\ \/ \E n \in 1..Len(kv) : IsRemote(kv[n])
     \/ ~HasKey(kv, "path")
     \/ GetKey(kv, "path") # relative_path(GetKey(kv, "name"))

\* the body of the loop over data['require']
LocalizeEntry(kv, repo_name_map) ==
  IF EntryManaged(kv, repo_name_map)
  THEN SetPath(SelectSeq(kv, NotRemote), relative_path(GetKey(kv, "name")))
  ELSE kv

LocalizeData(data, repo_name_map) ==
  [data EXCEPT !.tabs =
     [n \in 1..Len(data.tabs) |->
        IF data.tabs[n].tname = "require"
        THEN [data.tabs[n] EXCEPT !.kv = LocalizeEntry(@, repo_name_map)]
        ELSE data.tabs[n]]]

\* modify_toml_lakefile: the new content of the file and the returned flag
modify_toml_lakefile(content, repo_name_map, io) ==
  LET data == toml_load(content)
      modified == \E n \in 1..Len(data.tabs) :
                     /\ data.tabs[n].tname = "require"
                     /\ EntryModified(data.tabs[n].kv, repo_name_map)
  IN IF io = "read" \/ ~data.ok THEN Result(content, FALSE, FALSE, TRUE)
     ELSE IF ~modified THEN Result(content, FALSE, FALSE, FALSE)
     ELSE IF io = "open" THEN Result(content, FALSE, FALSE, TRUE)
     ELSE IF io = "write" THEN Result(<<>>, FALSE, TRUE, TRUE)
     ELSE Result(toml_dump(LocalizeData(data, repo_name_map)), TRUE, TRUE, FALSE)

\* ------------------------------------------------------------------------
\* State
\* ------------------------------------------------------------------------
VARIABLES
  rw,                   \* one manifest under repeated application of the rewriter
  co,                   \* the workspace under repeated runs of checkout.py
  regExists,            \* _crucible/repositories.yml exists
  registry,             \* the names listed in repositories.yml, in order
  dirs,                 \* the package directories of the workspace
  root,                 \* ./lakefile.toml
  root0,                \* ./lakefile.toml as it was when the current run started
  pc,                   \* position of main
  idx,                  \* index of the package the loop of main is at
  total_modified,
  root_update_success,
  abort,                \* why the run called sys.exit(1), or "none"
  log,                  \* what the run has done so far, in order
  lastBuild,            \* outcome of subprocess.run in the step just taken
  faulted,              \* a file operation has failed; at most one does
  run                   \* number of the current run of main

mvars == <<regExists, registry, dirs, root, root0, pc, idx, total_modified,
           root_update_success, abort, log, lastBuild, faulted, run>>
vars == <<rw, co, regExists, registry, dirs, root, root0, pc, idx, total_modified,
          root_update_success, abort, log, lastBuild, faulted, run>>

\* a TextBased file holds text, a Structured file holds lines
NoFile == [exists |-> FALSE, text |-> <<>>, lines |-> <<>>]
LeanFile(text) == [exists |-> TRUE, text |-> text, lines |-> <<>>]
TomlFile(lines) == [exists |-> TRUE, text |-> <<>>, lines |-> lines]
NoDir == [exists |-> FALSE, toml |-> NoFile, lean |-> NoFile]

DirNames == {NameA, NameB, NameAB}

\* ------------------------------------------------------------------------
\* Manifests the rewriter is applied to
\* ------------------------------------------------------------------------
RwNames == {NameA, NameAB}

\* TextBased clauses: the three forms of the comment above require_pattern,
\* the form the rewriter writes, and a quoted identifier
LeanClauseForms == {"scoped", "gitrev", "path", "canon", "guill"}
LeanItems ==
  [form : LeanClauseForms, name : RwNames \cup {NameAdotB}]
    \cup {[form |-> "comment", name |-> NameA],
          [form |-> "package", name |-> NameA]}

IsClause(item) == item.form \in LeanClauseForms

RenderLeanItem(item) ==
  CASE item.form = "scoped" ->
         <<"require", WS, Q, "s", Q, WS, "/", WS, Q>> \o item.name
           \o <<Q, WS, "@", WS, "git", WS, Q, "r", Q>>
    [] item.form = "gitrev" ->
         <<"require", WS>> \o item.name
           \o <<WS, "from", WS, "git", WS, Q, "u", Q, WS, "@", WS, Q, "r", Q>>
    [] item.form = "path" ->
         <<"require", WS>> \o item.name \o <<WS, "from", WS, Q, "p", Q>>
    [] item.form = "canon" -> Canonical(item.name)
    [] item.form = "guill" ->
         <<"require", WS, "<<">> \o item.name
           \o <<">>", WS, "from", WS, "git", WS, Q, "u", Q>>
    [] item.form = "comment" ->
         <<"-", "-", WS, "require", WS>> \o item.name
           \o <<WS, "from", WS, "git", WS, Q, "u", Q>>
    [] item.form = "package" ->
         <<"package", WS>> \o item.name \o <<WS, "where">>

RECURSIVE JoinLines(_)
\* the texts of a list, one per line
JoinLines(texts) ==
  IF texts = <<>> THEN <<>>
  ELSE IF Len(texts) = 1 THEN Head(texts)
  ELSE Head(texts) \o <<WS>> \o JoinLines(Tail(texts))

RenderLean(items) ==
  JoinLines([n \in 1..Len(items) |-> RenderLeanItem(items[n])])

\* Structured require entries
TomlItems ==
  [form : {"git", "url", "path", "canon"}, name : RwNames]
    \cup {[form |-> "noname", name |-> <<>>]}

TomlEntryKV(item) ==
  CASE item.form = "git" ->
         <<[k |-> "name", v |-> item.name], [k |-> "git", v |-> <<"u">>],
           [k |-> "rev", v |-> <<"r">>]>>
    [] item.form = "url" ->
         <<[k |-> "name", v |-> item.name], [k |-> "url", v |-> <<"u">>],
           [k |-> "version", v |-> <<"r">>]>>
    [] item.form = "path" ->
         <<[k |-> "name", v |-> item.name], [k |-> "path", v |-> <<"p">>],
           [k |-> "scope", v |-> <<"s">>]>>
    [] item.form = "canon" ->
         <<[k |-> "name", v |-> item.name],
           [k |-> "path", v |-> relative_path(item.name)]>>
    [] item.form = "noname" ->
         <<[k |-> "git", v |-> <<"u">>]>>

TomlLayouts == {"tight", "dump", "comment", "lib", "bad"}

TomlPreamble(layout) ==
  CASE layout = "comment" -> <<Comment, KV("name", <<"p">>)>>
    [] layout = "lib" ->
         <<KV("name", <<"p">>), Hdr("lean_lib"), KV("name", NameA), Blank>>
    [] layout = "bad" -> <<KV("name", <<"p">>), Bad>>
    [] OTHER -> <<KV("name", <<"p">>)>>

RECURSIVE RenderTomlEntries(_, _)
RenderTomlEntries(items, layout) ==
  IF items = <<>> THEN <<>>
  ELSE <<Hdr("require")>> \o KVLines(TomlEntryKV(Head(items)))
         \o (IF layout = "tight" THEN <<>> ELSE <<Blank>>)
         \o RenderTomlEntries(Tail(items), layout)

RenderToml(items, layout) ==
  TomlPreamble(layout) \o RenderTomlEntries(items, layout)

SeqsUpTo(S, lo, hi) == UNION {[1..n -> S] : n \in lo..hi}

RwStart(kind, layout, items, reg, file) ==
  [kind |-> kind, layout |-> layout, items |-> items, reg |-> reg,
   orig |-> file, file |-> file, hist |-> <<>>]

RwInits ==
  {RwStart("lean", "text", items, reg, LeanFile(RenderLean(items))) :
     items \in SeqsUpTo(LeanItems, 1, MaxItems), reg \in SUBSET RwNames}
  \cup
  {RwStart("toml", d[1], d[2], reg, TomlFile(RenderToml(d[2], d[1]))) :
     d \in TomlLayouts \X SeqsUpTo(TomlItems, 0, MaxItems),
     reg \in SUBSET RwNames}

RwIdle == RwStart("none", "text", <<>>, {}, NoFile)

\* ------------------------------------------------------------------------
\* checkout.py: the repositories it knows, the SHAs that can be asked for
\* ------------------------------------------------------------------------
CoNames == {NameA, NameB}
CoOrder == <<NameA, NameB>>
Shas == {"s1", "s2"}
None == "none"

\* no checkout.yaml, no directory
CoFresh ==
  [pc |-> "start", runs |-> 0,
   repos_data |-> [n \in CoNames |-> None],
   existing_checkout |-> [n \in CoNames |-> None],
   checkout_yaml |-> [n \in CoNames |-> None],
   held |-> [n \in CoNames |-> None],
   todo |-> <<>>, errors |-> {}, skipped |-> {}]

CoIdle == [CoFresh EXCEPT !.pc = "idle"]

MainIdle ==
  /\ regExists = FALSE
  /\ registry = <<>>
  /\ dirs = [d \in DirNames |-> NoDir]
  /\ root = NoFile
  /\ root0 = NoFile
  /\ pc = "idle"
  /\ idx = 0
  /\ total_modified = 0
  /\ root_update_success = FALSE
  /\ abort = "none"
  /\ log = <<>>
  /\ lastBuild = "none"
  /\ faulted = FALSE
  /\ run = 0

InitRewrite == rw \in RwInits /\ co = CoIdle /\ MainIdle

RwStep(after, res, io) ==
  rw' = [rw EXCEPT !.file = after,
                   !.hist = Append(@, [before |-> rw.file, after |-> after,
                                       modified |-> res.modified,
                                       wrote |-> res.wrote, io |-> io])]

\* one call of modify_toml_lakefile on the manifest
apply_toml ==
  /\ rw.kind = "toml"
  /\ Len(rw.hist) < MaxApply
  /\ \E k \in 1..Len(IoOrder) :
       LET io == IoOrder[k]
           res == modify_toml_lakefile(rw.file.lines, rw.reg, io)
       IN RwStep(TomlFile(res.content), res, io)
  /\ UNCHANGED <<co, mvars>>

\* one call of modify_lean_lakefile on the manifest
apply_lean ==
  /\ rw.kind = "lean"
  /\ Len(rw.hist) < MaxApply
  /\ \E k \in 1..Len(IoOrder) :
       LET io == IoOrder[k]
           res == modify_lean_lakefile(rw.file.text, rw.reg, io)
       IN RwStep(LeanFile(res.content), res, io)
  /\ UNCHANGED <<co, mvars>>

NextRewrite == apply_toml \/ apply_lean

SpecRewrite == InitRewrite /\ [][NextRewrite]_vars

\* ------------------------------------------------------------------------
\* The run of main
\* ------------------------------------------------------------------------
find_lakefile_LeanFirst(d) ==
  IF d.lean.exists THEN "lean"
  ELSE IF d.toml.exists THEN "toml"
  ELSE "none"

\* find_lakefile: lakefile.toml first, then lakefile.lean
find_lakefile(d) ==
  IF d.toml.exists THEN "toml"
  ELSE IF d.lean.exists THEN "lean"
  ELSE "none"

\* package\s+([a-zA-Z0-9_]+)\s+where anchored at position i
package_pattern(t, i) ==
  LET j == WS1(t, Lit(t, i, "package"))
      e == Ident1(t, j)
  IN IF e # 0 /\ Lit(t, WS1(t, e), "where") # 0
     THEN SubSeq(t, j, e - 1)
     ELSE <<>>

RECURSIVE re_search_package(_, _)
\* group 1 of the leftmost match, <<>> when there is none
re_search_package(t, i) ==
  IF i > Len(t) THEN <<>>
  ELSE IF package_pattern(t, i) # <<>> THEN package_pattern(t, i)
  ELSE re_search_package(t, i + 1)

\* extract_package_name; <<>> stands for None
extract_package_name(d) ==
  IF find_lakefile(d) = "toml"
  THEN LET data == toml_load(d.toml.lines)
       IN IF data.ok /\ HasKey(data.top, "name")
          THEN GetKey(data.top, "name")
          ELSE <<>>
  ELSE re_search_package(d.lean.text, 1)

BuildOutcomes == {"success", "nonzero", "timeout", "launch"}

\* run_lake_update: the flag returned for an outcome of subprocess.run
run_lake_update(outcome) == outcome = "success"

RECURSIVE Insert(_, _)
Insert(sorted, x) ==
  IF sorted = <<>> THEN <<x>>
  ELSE IF StrLess(x, Head(sorted)) THEN <<x>> \o sorted
  ELSE <<Head(sorted)>> \o Insert(Tail(sorted), x)

RECURSIVE sorted(_)
\* sorted(repo_names)
sorted(names) ==
  IF names = <<>> THEN <<>>
  ELSE Insert(sorted(SubSeq(names, 1, Len(names) - 1)), names[Len(names)])

DefaultName == <<"crucible-workspace">>
DefaultVersion == <<"0.1.0">>

RootOrder_Listed(repo_names) == repo_names
\* the order in which create_root_lakefile visits the names
RootOrder(repo_names) == sorted(repo_names)

Resolvable_NoName(n) ==
  /\ dirs[n].exists
  /\ find_lakefile(dirs[n]) # "none"

\* can the package in directory n be put into the root manifest
Resolvable(n) ==
  /\ dirs[n].exists
  /\ find_lakefile(dirs[n]) # "none"
  /\ extract_package_name(dirs[n]) # <<>>

Preserved_Dropped(key, default) == default

\* the name or version create_root_lakefile starts from
Preserved(key, default) ==
  LET existing_config == toml_load(root.lines)
  IN IF root.exists /\ existing_config.ok /\ HasKey(existing_config.top, key)
     THEN GetKey(existing_config.top, key)
     ELSE default

\* config as create_root_lakefile has built it when it writes
RootConfig(repo_names) ==
  LET order == RootOrder(repo_names)
      found == SelectSeq(order, Resolvable)
      entries == [k \in 1..Len(found) |->
                    [tname |-> "require",
                     kv |-> <<[k |-> "name", v |-> extract_package_name(dirs[found[k]])],
                              [k |-> "path", v |-> <<".", "/">> \o found[k]]>>]]
  IN [ok |-> TRUE,
      top |-> <<[k |-> "name", v |-> Preserved("name", DefaultName)],
                [k |-> "version", v |-> Preserved("version", DefaultVersion)]>>
                \o (IF entries = <<>> THEN <<[k |-> "require", v |-> EmptyList]>>
                    ELSE <<>>),
      tabs |-> entries]

Event(e, n, ok) == [e |-> e, n |-> n, ok |-> ok]

HasLakefile(n) == dirs[n].exists /\ find_lakefile(dirs[n]) # "none"

\* the manifests create_root_lakefile reads, in order
RootReads(repo_names) ==
  LET read == SelectSeq(RootOrder(repo_names), HasLakefile)
  IN [k \in 1..Len(read) |-> Event("pkgread", read[k], TRUE)]

repo_name_map == {registry[k] : k \in 1..Len(registry)}

AfterPackageBuild_Fatal(result) == IF result THEN "loop" ELSE "exited"
\* where main goes after a package's lake update, whatever it returned
AfterPackageBuild(result) == "loop"

AfterRootBuild_Fatal(result) == IF result THEN "summarize" ELSE "exited"
\* where main goes after the root lake update, whatever it returned
AfterRootBuild(result) == "summarize"

IsModified_Always(res) == TRUE
\* `if modified:` in the loop of main
IsModified(res) == res.modified

AfterRewrite_Fatal(res) == IF res.raised THEN "exited" ELSE "loop"
\* where main goes when the rewriter returned False, for whatever reason
AfterRewrite(res) == "loop"

LoopDone_Early == idx >= Len(registry)
\* the for loop of main has gone through every repository
LoopDone == idx > Len(registry)

\* load_repositories, at the start of main
load_repositories ==
  /\ pc = "start"
  /\ IF regExists
     THEN /\ pc' = "loop"
          /\ idx' = 1
          /\ abort' = "none"
     ELSE /\ pc' = "exited"
          /\ abort' = "MissingRegistry"
          /\ idx' = idx
  /\ UNCHANGED <<rw, co, regExists, registry, dirs, root, root0, total_modified,
                 root_update_success, log, lastBuild, faulted, run>>

\* one iteration of the loop of main, up to the decision to run lake update
process_package ==
  /\ pc = "loop"
  /\ idx <= Len(registry)
  /\ LET repo_name == registry[idx]
         repo_dir == dirs[repo_name]
         lakefile == find_lakefile(repo_dir)
     IN IF ~repo_dir.exists \/ lakefile = "none"
        THEN /\ idx' = idx + 1
             /\ UNCHANGED <<dirs, total_modified, log, pc, faulted>>
        ELSE \E k \in 1..Len(IoOrder) :
               LET io == IoOrder[k]
                   res == IF lakefile = "toml"
                          THEN modify_toml_lakefile(repo_dir.toml.lines, repo_name_map, io)
                          ELSE modify_lean_lakefile(repo_dir.lean.text, repo_name_map, io)
               IN /\ io # "ok" => ~faulted
                  /\ faulted' = (faulted \/ io # "ok")
                  /\ dirs' = IF lakefile = "toml"
                             THEN [dirs EXCEPT ![repo_name].toml = TomlFile(res.content)]
                             ELSE [dirs EXCEPT ![repo_name].lean = LeanFile(res.content)]
                  /\ log' = IF res.wrote
                            THEN Append(log, Event("pkgwrite", repo_name, res.modified))
                            ELSE IF res.raised
                            THEN Append(log, Event("pkgfail", repo_name, FALSE))
                            ELSE log
                  /\ IF IsModified(res)
                     THEN /\ total_modified' = total_modified + 1
                          /\ pc' = "build"
                          /\ idx' = idx
                     ELSE /\ total_modified' = total_modified
                          /\ pc' = AfterRewrite(res)
                          /\ idx' = idx + 1
  /\ lastBuild' = "none"
  /\ UNCHANGED <<rw, co, regExists, registry, root, root0, root_update_success,
                 abort, run>>

\* run_lake_update(repo_dir, repo_name) after a modification
package_build ==
  /\ pc = "build"
  /\ \E outcome \in BuildOutcomes :
       /\ lastBuild' = outcome
       \* main drops the value run_lake_update returns here
       /\ log' = Append(log, Event("pkgbuild", registry[idx], TRUE))
       /\ pc' = AfterPackageBuild(run_lake_update(outcome))
  /\ idx' = idx + 1
  /\ UNCHANGED <<rw, co, regExists, registry, dirs, root, root0, total_modified,
                 root_update_success, abort, faulted, run>>

\* create_root_lakefile(repo_names), once the loop is over
create_root_lakefile ==
  /\ pc = "loop"
  /\ LoopDone
  /\ \E k \in 2..Len(IoOrder) :
       LET io == IoOrder[k]
       IN /\ io # "ok" => ~faulted
          /\ faulted' = (faulted \/ io # "ok")
          /\ root' = (CASE io = "ok" -> TomlFile(toml_dump(RootConfig(registry)))
                        [] io = "open" -> root
                        [] io = "write" -> TomlFile(<<>>))
          /\ log' = log \o RootReads(registry) \o <<Event("rootwrite", <<>>, io = "ok")>>
          /\ IF io = "ok"
             THEN pc' = "rootbuild" /\ abort' = abort
             ELSE pc' = "exited" /\ abort' = "RootWrite"
  /\ lastBuild' = "none"
  /\ UNCHANGED <<rw, co, regExists, registry, dirs, root0, idx, total_modified,
                 root_update_success, run>>

\* run_lake_update(Path("."), "crucible-workspace")
root_build ==
  /\ pc = "rootbuild"
  /\ \E outcome \in BuildOutcomes :
       /\ lastBuild' = outcome
       /\ root_update_success' = run_lake_update(outcome)
       /\ log' = Append(log, Event("rootbuild", <<>>, run_lake_update(outcome)))
       /\ pc' = AfterRootBuild(run_lake_update(outcome))
  /\ UNCHANGED <<rw, co, regExists, registry, dirs, root, root0, idx,
                 total_modified, abort, faulted, run>>

\* the summary at the end of main
summarize ==
  /\ pc = "summarize"
  /\ log' = Append(log, Event("summarize", <<>>, root_update_success))
  /\ pc' = "done"
  /\ lastBuild' = "none"
  /\ UNCHANGED <<rw, co, regExists, registry, dirs, root, root0, idx,
                 total_modified, root_update_success, abort, faulted, run>>

\* main is started again in the workspace the last run left
rerun ==
  /\ pc \in {"done", "exited"}
  /\ run < MaxRuns
  /\ run' = run + 1
  /\ pc' = "start"
  /\ idx' = 0
  /\ total_modified' = 0
  /\ root_update_success' = FALSE
  /\ abort' = "none"
  /\ log' = <<>>
  /\ lastBuild' = "none"
  /\ root0' = root
  /\ UNCHANGED <<rw, co, regExists, registry, dirs, root, faulted>>

\* ------------------------------------------------------------------------
\* Workspaces main starts in
\* ------------------------------------------------------------------------
\* the dependency the manifest in directory d declares
DepOf(d) ==
  CASE d = NameA -> NameB
    [] d = NameB -> NameAB
    [] OTHER -> NameA

PkgToml(d) ==
  TomlFile(<<Comment, KV("name", d), Hdr("require"),
             KV("name", DepOf(d)), KV("git", <<"u">>)>>)

PkgLean(d) ==
  LeanFile(JoinLines(<<RenderLeanItem([form |-> "package", name |-> <<"p">>]),
                       RenderLeanItem([form |-> "gitrev", name |-> DepOf(d)])>>))

\* every directory may be absent or hold one manifest; a may also hold a
\* manifest that does not parse, b may hold both manifests, a-b may be empty
PkgOptions(d) ==
  {NoDir,
   [exists |-> TRUE, toml |-> PkgToml(d), lean |-> NoFile],
   [exists |-> TRUE, toml |-> NoFile, lean |-> PkgLean(d)]}
  \cup (IF d = NameB
        THEN {[exists |-> TRUE, toml |-> PkgToml(d), lean |-> PkgLean(d)]}
        ELSE {})
  \cup (IF d = NameAB
        THEN {[exists |-> TRUE, toml |-> NoFile, lean |-> NoFile]}
        ELSE {})
  \cup (IF d = NameA
        THEN {[exists |-> TRUE, toml |-> TomlFile(<<Bad>>), lean |-> NoFile]}
        ELSE {})

StaleEntry ==
  <<Hdr("require"), KV("name", <<"s">>), KV("path", <<".", "/", "s">>), Blank>>

RootOptions ==
  {NoFile,
   TomlFile(<<KV("name", <<"foo">>), KV("version", <<"2.0">>)>> \o StaleEntry),
   TomlFile(<<Bad>>)}

Registries ==
  {r \in SeqsUpTo(DirNames, 0, MaxRepos) :
     \A m, n \in 1..Len(r) : r[m] = r[n] => m = n}

Init ==
  /\ rw = RwIdle
  /\ co = CoIdle
  /\ regExists \in BOOLEAN
  /\ registry \in Registries
  /\ regExists = FALSE => registry = <<>>
  /\ dirs \in [DirNames -> UNION {PkgOptions(d) : d \in DirNames}]
  /\ \A d \in DirNames :
       IF d \in {registry[k] : k \in 1..Len(registry)}
       THEN dirs[d] \in PkgOptions(d)
       ELSE dirs[d] = NoDir
  /\ root \in RootOptions
  /\ root0 = root
  /\ pc = "start"
  /\ idx = 0
  /\ total_modified = 0
  /\ root_update_success = FALSE
  /\ abort = "none"
  /\ log = <<>>
  /\ lastBuild = "none"
  /\ faulted = FALSE
  /\ run = 1

Next ==
  \/ load_repositories
  \/ process_package
  \/ package_build
  \/ create_root_lakefile
  \/ root_build
  \/ summarize
  \/ rerun

Spec == Init /\ [][Next]_vars

\* the positions of main from which it takes a further step
Running == {"start", "loop", "build", "rootbuild", "summarize"}

\* a started run goes on until it ends: main is sequential code, every step
\* of it moves on to another position or to the next repository, and
\* subprocess.run returns or raises within its 60 second timeout
Advance ==
  /\ pc \in Running
  /\ pc' \in Running \cup {"done", "exited"}
  /\ idx' \in 0..(MaxRepos + 2)
  /\ <<pc', idx'>> # <<pc, idx>>

SpecFair == Spec /\ WF_<<pc, idx>>(Advance)

\* ------------------------------------------------------------------------
\* The run of the main of checkout.py
\* ------------------------------------------------------------------------
\* requests.get answers with a status other than 200 or raises; the archive
\* cannot be written, unpacked or found; shutil.move raises after rmtree has
\* removed the target directory
DownloadOutcomes == {"ok", "status", "extract", "move"}

\* download_repo_contents: what the target directory holds afterwards and
\* whether the call raised
download_repo_contents(target_dir, sha, outcome) ==
  CASE outcome = "ok" -> [target |-> sha, raised |-> FALSE]
    [] outcome = "move" -> [target |-> None, raised |-> TRUE]
    [] OTHER -> [target |-> target_dir, raised |-> TRUE]

\* main reads the SHAs asked for and the checkout.yaml of the last run
checkout_load ==
  /\ co.pc \in {"start", "done"}
  /\ co.runs < MaxCheckouts
  /\ \E asked \in [CoNames -> Shas] :
       co' = [co EXCEPT !.pc = "loop",
                        !.runs = @ + 1,
                        !.repos_data = asked,
                        !.existing_checkout = co.checkout_yaml,
                        !.todo = CoOrder,
                        !.errors = {},
                        !.skipped = {}]
  /\ UNCHANGED <<rw, mvars>>

\* one iteration of the loop over repos_data.items()
checkout_repo ==
  /\ co.pc = "loop"
  /\ co.todo # <<>>
  /\ LET name == Head(co.todo)
         sha == co.repos_data[name]
         current_sha == co.existing_checkout[name]
     IN IF current_sha = sha
        THEN co' = [co EXCEPT !.todo = Tail(@), !.skipped = @ \cup {name}]
        ELSE \E outcome \in DownloadOutcomes :
               LET res == download_repo_contents(co.held[name], sha, outcome)
               IN co' = [co EXCEPT !.todo = Tail(@),
                                   !.held[name] = res.target,
                                   !.errors = IF res.raised THEN @ \cup {name} ELSE @]
  /\ UNCHANGED <<rw, mvars>>

\* yaml.dump(repos_data) into checkout.yaml, after the loop
checkout_write ==
  /\ co.pc = "loop"
  /\ co.todo = <<>>
  /\ co' = [co EXCEPT !.pc = "done", !.checkout_yaml = co.repos_data]
  /\ UNCHANGED <<rw, mvars>>

InitCheckout == rw = RwIdle /\ co = CoFresh /\ MainIdle

NextCheckout == checkout_load \/ checkout_repo \/ checkout_write

SpecCheckout == InitCheckout /\ [][NextCheckout]_vars

\* ------------------------------------------------------------------------
\* Properties of the Dependency Rewriter (checked under SpecRewrite)
\* ------------------------------------------------------------------------
AllOk == \A k \in 1..Len(rw.hist) : rw.hist[k].io = "ok"
Applied == rw.hist # <<>> /\ AllOk

\* a require entry that is fully localized
Localized(kv) ==
  /\ HasKey(kv, "path")
  /\ GetKey(kv, "path") = relative_path(GetKey(kv, "name"))
  /\ \A n \in 1..Len(kv) : ~IsRemote(kv[n])

RwDeclaresManaged(item) == IsClause(item) /\ item.name \in rw.reg

\* the text in which every clause naming a registry member is the canonical
\* clause and every other line is what the rewriter makes of it
LeanLocalizedText ==
  JoinLines([n \in 1..Len(rw.items) |->
               IF RwDeclaresManaged(rw.items[n])
               THEN Canonical(rw.items[n].name)
               ELSE re_sub(RenderLeanItem(rw.items[n]), 1, rw.reg)])

\* C1: after the rewriter has run on a manifest, every dependency clause whose
\* declared name is a registry member has path "../{name}" and keeps no git,
\* url, rev, version or scope (Structured: the fields of the entry; TextBased:
\* the clause is exactly require {name} from "../{name}").
C1_LocalizationCorrectness ==
  Applied =>
    /\ (rw.kind = "toml" /\ toml_load(rw.orig.lines).ok) =>
         LET data == toml_load(rw.file.lines)
         IN \A n \in 1..Len(data.tabs) :
              (data.tabs[n].tname = "require"
                 /\ EntryManaged(data.tabs[n].kv, rw.reg))
                => Localized(data.tabs[n].kv)
    /\ rw.kind = "lean" => rw.file.text = LeanLocalizedText

\* C2: a second application of the rewriter leaves the content the first one
\* produced, reports modified = false and writes nothing.
C2_Idempotence ==
  \A k \in 2..Len(rw.hist) :
    (rw.hist[k - 1].io = "ok" /\ rw.hist[k].io = "ok") =>
      /\ rw.hist[k].after = rw.hist[k - 1].after
      /\ ~rw.hist[k].modified
      /\ ~rw.hist[k].wrote

RECURSIVE StripBlocks(_, _)
\* the lines from the first header on, without the require entries that name
\* a registry member
StripBlocks(lines, reg) ==
  IF lines = <<>> THEN <<>>
  ELSE LET rest == Tail(lines)
           n == FirstHdr(rest, 1)
           block == <<Head(lines)>> \o SubSeq(rest, 1, n - 1)
       IN (IF Head(lines).k = "require" /\ EntryManaged(KVsOf(block), reg)
           THEN <<>> ELSE block)
          \o StripBlocks(SubSeq(rest, n, Len(rest)), reg)

\* a Structured file without its require entries that name a registry member
StripManaged(lines, reg) ==
  LET h == FirstHdr(lines, 1)
  IN SubSeq(lines, 1, h - 1) \o StripBlocks(SubSeq(lines, h, Len(lines)), reg)

\* C3: modify_toml_lakefile leaves every require entry that has no name or
\* names no registry member, and every other line of the file (comments,
\* other tables, layout), exactly as it was.
C3_StructuredSelective ==
  (rw.kind = "toml" /\ Len(rw.hist) >= 1 /\ rw.hist[1].io = "ok") =>
     StripManaged(rw.hist[1].after.lines, rw.reg)
       = StripManaged(rw.hist[1].before.lines, rw.reg)

\* the text in which only the clauses naming a registry member have changed
LeanSelectiveText ==
  JoinLines([n \in 1..Len(rw.items) |->
               IF RwDeclaresManaged(rw.items[n])
               THEN re_sub(RenderLeanItem(rw.items[n]), 1, rw.reg)
               ELSE RenderLeanItem(rw.items[n])])

\* C4: modify_lean_lakefile changes the text of a clause only if the clause's
\* full identifier is a registry member; every other clause (also one whose
\* identifier only begins with a registry name) and all text outside clauses
\* stay as they were.
C4_TextSelective ==
  (rw.kind = "lean" /\ Len(rw.hist) >= 1 /\ rw.hist[1].io = "ok") =>
     rw.hist[1].after.text = LeanSelectiveText

\* ------------------------------------------------------------------------
\* Properties of the run of main (checked under Spec and SpecFair)
\* ------------------------------------------------------------------------
\* create_root_lakefile has written the root manifest in this run
RootWritten == pc \in {"rootbuild", "summarize", "done"}

IsRequireTab(tab) == tab.tname = "require"

\* the require list of the root manifest on disk
RootEntries ==
  LET tabs == SelectSeq(toml_load(root.lines).tabs, IsRequireTab)
  IN [k \in 1..Len(tabs) |-> tabs[k].kv]

\* the directory a root entry points at: its path without "./"
EntryDir(kv) == SubSeq(GetKey(kv, "path"), 3, Len(GetKey(kv, "path")))

RegistryPos(n) == CHOOSE k \in 1..Len(registry) : registry[k] = n

\* C5 as claimed: the entries of the root manifest follow the order of the
\* registry list.
C5_RegistryOrder ==
  RootWritten =>
    \A i, j \in 1..Len(RootEntries) :
      i < j => RegistryPos(EntryDir(RootEntries[i])) < RegistryPos(EntryDir(RootEntries[j]))

\* C5 amended: the entries of the root manifest are in ascending order of
\* their directory names (sorted(repo_names)), whatever the registry order.
C5_SortedOrder ==
  RootWritten =>
    \A i, j \in 1..Len(RootEntries) :
      i < j => StrLess(EntryDir(RootEntries[i]), EntryDir(RootEntries[j]))

\* two packages are in the root manifest and the registry lists them in
\* descending order
C5_Witness ==
  /\ pc = "done"
  /\ Len(RootEntries) = 2
  /\ Len(registry) = 2
  /\ StrLess(registry[2], registry[1])

\* the registry names the composer must include
Includable ==
  {n \in repo_name_map :
     /\ dirs[n].exists
     /\ dirs[n].toml.exists \/ dirs[n].lean.exists
     /\ extract_package_name(dirs[n]) # <<>>}

\* C6: once a run has written the root manifest, its require list has exactly
\* one entry {name: declared package name, path: "./{directory}"} for each
\* registry name whose directory exists, whose manifest is found and whose
\* name can be extracted, and nothing else (no entry of the previous root
\* manifest, no entry for a name that was skipped).
C6_RootMembership ==
  RootWritten =>
    /\ toml_load(root.lines).ok
    /\ Len(RootEntries) = Cardinality(Includable)
    /\ {RootEntries[k] : k \in 1..Len(RootEntries)}
         = {<<[k |-> "name", v |-> extract_package_name(dirs[n])],
              [k |-> "path", v |-> <<".", "/">> \o n]>> : n \in Includable}

\* a run ended with one package in the root manifest, one registry name left
\* out, and the entry of the previous root manifest gone
C6_Witness ==
  /\ pc = "done"
  /\ run = 1
  /\ root0.exists /\ Len(SelectSeq(toml_load(root0.lines).tabs, IsRequireTab)) = 1
  /\ Cardinality(Includable) = 1
  /\ Len(registry) = 2

\* C7 as claimed: only a missing registry ends a run before Summarize.
C7_OnlyMissingRegistryAborts ==
  pc = "exited" => abort = "MissingRegistry"

\* C7 amended: a run that has loaded the registry reaches Summarize unless
\* writing the root manifest fails; a missing registry and a failed write of
\* the root manifest are the only things that end a run early.
C7_SummarizeUnlessRootWriteFails ==
  /\ [](pc = "exited" => abort \in {"MissingRegistry", "RootWrite"})
  /\ (pc = "loop") ~> (pc = "done" \/ (pc = "exited" /\ abort = "RootWrite"))

\* a run reached the end although a directory was missing, a manifest could
\* not be parsed and the root build failed
C7_Witness ==
  /\ pc = "done"
  /\ \E n \in repo_name_map : ~dirs[n].exists
  /\ \E n \in repo_name_map : dirs[n].toml.exists /\ ~toml_load(dirs[n].toml.lines).ok
  /\ ~root_update_success

Before(e1, e2) ==
  \A i, j \in 1..Len(log) : (log[i].e = e1 /\ log[j].e = e2) => i < j

HasEvent(e) == \E i \in 1..Len(log) : log[i].e = e

\* C8: every write of a package manifest and every package build comes before
\* the composer reads a package manifest and before the root manifest is
\* written, with no package left to process; the root build comes after the
\* write of the root manifest and before the summary.
C8_RunOrder ==
  /\ Before("pkgwrite", "pkgread") /\ Before("pkgwrite", "rootwrite")
  /\ Before("pkgbuild", "pkgread") /\ Before("pkgbuild", "rootwrite")
  /\ Before("rootwrite", "rootbuild") /\ Before("rootbuild", "summarize")
  /\ HasEvent("rootwrite") => idx > Len(registry)
  /\ HasEvent("rootbuild") => HasEvent("rootwrite")
  /\ HasEvent("summarize") => HasEvent("rootbuild")
  /\ pc = "done" => HasEvent("summarize")

\* a finished run that wrote and built a package, read its manifest for the
\* root manifest, and built the root
C8_Witness ==
  /\ pc = "done"
  /\ HasEvent("pkgwrite") /\ HasEvent("pkgbuild") /\ HasEvent("pkgread")
  /\ HasEvent("rootwrite") /\ HasEvent("rootbuild") /\ HasEvent("summarize")

RootTop(f) == toml_load(f.lines).top

\* C9: the root manifest a run writes has the name and the version of the
\* readable root manifest that was there before the run, and the defaults
\* 'crucible-workspace' and '0.1.0' when there was none; in every run.
C9_RootPreservation ==
  RootWritten =>
    /\ (root0.exists /\ toml_load(root0.lines).ok
          /\ HasKey(RootTop(root0), "name") /\ HasKey(RootTop(root0), "version"))
         => /\ GetKey(RootTop(root), "name") = GetKey(RootTop(root0), "name")
            /\ GetKey(RootTop(root), "version") = GetKey(RootTop(root0), "version")
    /\ ~root0.exists
         => /\ GetKey(RootTop(root), "name") = DefaultName
            /\ GetKey(RootTop(root), "version") = DefaultVersion

\* the second run has rewritten a root manifest named foo, version 2.0
C9_Witness ==
  /\ pc = "done"
  /\ run = 2
  /\ root0.exists
  /\ GetKey(RootTop(root), "name") = <<"foo">>
  /\ GetKey(RootTop(root), "version") = <<"2.0">>

\* C10: whatever a lake update returns, main goes on as it would have: after
\* a package build to the next repository, after the root build to the
\* summary; nothing but the reported result depends on the outcome, a package
\* build is followed by the composition of the root manifest and the root
\* build by the end of the run.
C10_BuildNonFatal ==
  /\ [][/\ pc = "build" => (pc' = "loop" /\ idx' = idx + 1)
        /\ pc = "rootbuild" => pc' = "summarize"
        /\ pc \in {"build", "rootbuild"} =>
             (dirs' = dirs /\ root' = root /\ abort' = abort
                /\ total_modified' = total_modified)]_vars
  /\ (pc = "build") ~> HasEvent("rootwrite")
  /\ (pc = "rootbuild") ~> (pc = "done")

\* the lake update of a package has just timed out, and main is back in its
\* loop with the next repository
C10_Witness ==
  /\ pc = "loop"
  /\ lastBuild = "timeout"
  /\ idx = 2
  /\ idx <= Len(registry)
  /\ log[Len(log)].e = "pkgbuild"

\* a directory with both manifests, a directory with none
HasBoth(n) == dirs[n].exists /\ dirs[n].toml.exists /\ dirs[n].lean.exists
HasNone(n) == dirs[n].exists /\ ~dirs[n].toml.exists /\ ~dirs[n].lean.exists

\* the names of the root entries that point at directory n
RootNamesOf(n) ==
  {GetKey(RootEntries[k], "name") : k \in {j \in 1..Len(RootEntries) : EntryDir(RootEntries[j]) = n}}

\* the name lakefile.toml of directory n declares, if it declares one
TomlNameOf(n) ==
  LET data == toml_load(dirs[n].toml.lines)
  IN IF data.ok /\ HasKey(data.top, "name") THEN {GetKey(data.top, "name")} ELSE {}

\* C11: where a directory holds lakefile.toml and lakefile.lean, no step
\* changes lakefile.lean and the name in the root manifest is the one
\* lakefile.toml declares (none when it declares none); a directory with
\* neither file is skipped: the loop moves to the next repository with no
\* file changed, nothing counted, written or built, and the root manifest
\* has no entry for it.
C11_LocatorPriority ==
  /\ [][/\ \A n \in DirNames :
             /\ HasBoth(n) => dirs'[n].lean = dirs[n].lean
             /\ HasNone(n) => dirs'[n] = dirs[n]
        /\ (pc = "loop" /\ idx <= Len(registry) /\ HasNone(registry[idx])) =>
             /\ pc' = "loop" /\ idx' = idx + 1
             /\ total_modified' = total_modified /\ log' = log]_vars
  /\ [](RootWritten =>
         \A n \in repo_name_map :
           /\ HasBoth(n) => RootNamesOf(n) = TomlNameOf(n)
           /\ HasNone(n) => RootNamesOf(n) = {})

\* a run ended in which b holds both manifests, its lakefile.toml was
\* rewritten and its lakefile.lean is as it was, and the empty directory a-b
\* is not in the root manifest
C11_Witness ==
  /\ pc = "done"
  /\ registry = <<NameAB, NameB>>
  /\ HasBoth(NameB) /\ HasNone(NameAB)
  /\ dirs[NameB].lean = PkgLean(NameB)
  /\ dirs[NameB].toml # PkgToml(NameB)
  /\ RootNamesOf(NameB) = {NameB}
  /\ RootNamesOf(NameAB) = {}

\* the rewriter ended in its except clause for the manifest of n in this run
Failed(n) ==
  \E i \in 1..Len(log) :
    /\ log[i].n = n
    /\ log[i].e = "pkgfail" \/ (log[i].e = "pkgwrite" /\ ~log[i].ok)

CountEvents(e, n) == Cardinality({i \in 1..Len(log) : log[i].e = e /\ log[i].n = n})

\* C12 as claimed: a package whose rewrite failed gets no build and is in the
\* require list of the root manifest the run writes.
C12_FailedRewriteIncluded ==
  \A n \in repo_name_map :
    Failed(n) =>
      /\ CountEvents("pkgbuild", n) = 0
      /\ RootWritten => RootNamesOf(n) # {}

\* C12 amended: the step in which a rewrite fails leaves the modified total
\* as it was and goes on to the next repository; the package gets no build;
\* the composer reads its manifest and puts it into the root manifest exactly
\* when its name can be extracted from the manifest as the rewrite left it.
C12_FailedRewriteEvaluated ==
  /\ [][(/\ Len(log') = Len(log) + 1
          /\ \/ log'[Len(log')].e = "pkgfail"
             \/ log'[Len(log')].e = "pkgwrite" /\ ~log'[Len(log')].ok) =>
          (total_modified' = total_modified /\ pc' = "loop" /\ idx' = idx + 1)]_vars
  /\ [](\A n \in repo_name_map :
          Failed(n) =>
            /\ CountEvents("pkgbuild", n) = 0
            /\ RootWritten =>
                 /\ CountEvents("pkgread", n) = 1
                 /\ RootNamesOf(n) # {} <=> n \in Includable)

\* a run ended in which the rewrite of the first of two packages failed,
\* nothing was counted, and the package is in the root manifest
C12_Witness ==
  /\ pc = "done"
  /\ Len(registry) = 2
  /\ Failed(registry[1])
  /\ total_modified = 0
  /\ RootNamesOf(registry[1]) # {}

\* the loop of main is past repository n
Processed(n) == pc # "start" /\ idx > RegistryPos(n)

\* the rewriter returned True for the manifest of n
ReportedModified(n) == \E i \in 1..Len(log) : log[i] = Event("pkgwrite", n, TRUE)

\* C13: a package is built once if the rewriter reported its manifest as
\* modified and never otherwise, the root is built once in a run that reaches
\* the summary and never twice, and the modified total of the summary is the
\* number of package builds.
C13_BuildCount ==
  /\ \A n \in repo_name_map :
       /\ CountEvents("pkgbuild", n) <= 1
       /\ CountEvents("pkgbuild", n) = 1 => ReportedModified(n)
       /\ Processed(n) => (ReportedModified(n) => CountEvents("pkgbuild", n) = 1)
  /\ CountEvents("rootbuild", <<>>) <= 1
  /\ pc \in {"summarize", "done"} =>
       /\ CountEvents("rootbuild", <<>>) = 1
       /\ total_modified = Cardinality({i \in 1..Len(log) : log[i].e = "pkgbuild"})

\* a run ended with two packages processed, one of them modified and built
C13_Witness ==
  /\ pc = "done"
  /\ Len(registry) = 2
  /\ total_modified = 1
  /\ CountEvents("pkgbuild", registry[1]) = 1
  /\ find_lakefile(dirs[registry[2]]) # "none"
  /\ CountEvents("pkgbuild", registry[2]) = 0

RECURSIVE Occurs(_, _, _)
\* the tokens p occur in the text t at or after position i
Occurs(p, t, i) ==
  IF i + Len(p) - 1 > Len(t) THEN FALSE
  ELSE IF SubSeq(t, i, i + Len(p) - 1) = p THEN TRUE
  ELSE Occurs(p, t, i + 1)

\* the manifest of directory n has a clause with the local path "../x"
LocalClauseFor(n, x) ==
  IF find_lakefile(dirs[n]) = "toml"
  THEN LET data == toml_load(dirs[n].toml.lines)
       IN /\ data.ok
          /\ \E k \in 1..Len(data.tabs) :
               /\ data.tabs[k].tname = "require"
               /\ HasKey(data.tabs[k].kv, "path")
               /\ GetKey(data.tabs[k].kv, "path") = relative_path(x)
  ELSE /\ find_lakefile(dirs[n]) = "lean"
       /\ Occurs(<<"from", WS, Q>> \o relative_path(x) \o <<Q>>, dirs[n].lean.text, 1)

\* C14 as claimed: at the end of a run every local path "../x" in the
\* manifest of a package points at a directory that is present.
C14_LocalPathsPresent ==
  pc = "done" =>
    \A n \in repo_name_map : \A x \in DirNames :
      (dirs[n].exists /\ LocalClauseFor(n, x)) => dirs[x].exists

\* C14 amended: every local path "../x" in the manifest of a package names
\* a member x of the registry; whether directory x is present plays no part.
C14_LocalPathsManaged ==
  \A n \in repo_name_map : \A x \in DirNames :
    (dirs[n].exists /\ LocalClauseFor(n, x)) => x \in repo_name_map

\* a run ended that gave a package a local path to a registry member whose
\* directory is absent
C14_Witness ==
  /\ pc = "done"
  /\ \E n \in repo_name_map : \E x \in repo_name_map :
       /\ ReportedModified(n)
       /\ LocalClauseFor(n, x)
       /\ ~dirs[x].exists

\* ------------------------------------------------------------------------
\* Properties of checkout.py (checked under SpecCheckout)
\* ------------------------------------------------------------------------
\* C15: after a run, a repository recorded in checkout.yaml at a SHA has a
\* directory holding the contents of that SHA, and a repository a run skips
\* as already checked out holds the contents of the SHA asked for.
C15_RecordConsistent ==
  /\ co.pc = "done" =>
       \A n \in CoNames :
         co.checkout_yaml[n] # None => co.held[n] = co.checkout_yaml[n]
  /\ \A n \in co.skipped : co.held[n] = co.repos_data[n]

====
